---------------------------- MODULE Spec2Model ----------------------------
(***************************************************************************)
(* A model of the Talend-to-dbt converter (src/app1.py): the extractor      *)
(* parse_talend_xml, which turns the text of a Talend .item document into   *)
(* a job summary, and the /convert route that calls it before the           *)
(* generative model.                                                        *)
(*                                                                          *)
(* Python strings are sequences of chunks: a chunk is either the quote      *)
(* character Q or a non-empty run of characters holding no quote, so        *)
(* str.strip('"') is computed on the value itself.  None is the one value   *)
(* of that carrier that is no string.  A dict is a sequence of              *)
(* <<key, value>> pairs in insertion order.  A document is a sequence of    *)
(* tokens (start tag, end tag, empty-element tag, character data) and       *)
(* ET.fromstring is the parser that builds the element tree from it or      *)
(* fails.                                                                   *)
(***************************************************************************)
EXTENDS Naturals, Sequences, FiniteSets

VARIABLES
    xml_content,  \* the argument of parse_talend_xml: a sequence of tokens
    pc,           \* the position of the running call
    root,         \* the element tree ET.fromstring returned (<<>> before)
    idx,          \* the position of the running for-loop in its findall list
    summary,      \* the local dict summary of parse_talend_xml
    raised,       \* an exception has left parse_talend_xml
    prev,         \* an earlier call: its argument and the summary it returned
    calls,        \* the number of calls of parse_talend_xml started
    req,          \* the position of the /convert request ("none": a direct call)
    resp,         \* the HTTP status /convert answered with (0: none yet)
    llm_calls     \* the number of calls of call_generative_model

vars == <<xml_content, pc, root, idx, summary, raised, prev, calls, req, resp, llm_calls>>

---------------------------------------------------------------------------
(* Strings *)

Q == "\""
None == <<"">>
S(x) == <<x>>
Quoted(s) == <<Q>> \o s \o <<Q>>

IsStr(v) == v # None
\* Python truthiness of a str-or-None value
Truthy(v) == v # None /\ v # <<>>

RECURSIVE LStrip(_)
LStrip(s) == IF s # <<>> /\ Head(s) = Q THEN LStrip(Tail(s)) ELSE s

RECURSIVE RStrip(_)
RStrip(s) == IF s # <<>> /\ s[Len(s)] = Q THEN RStrip(SubSeq(s, 1, Len(s) - 1)) ELSE s

\* a strip of one leading and one trailing quote character
Strip_once(s) ==
    LET l == IF s # <<>> /\ Head(s) = Q THEN Tail(s) ELSE s
    IN IF l # <<>> /\ l[Len(l)] = Q THEN SubSeq(l, 1, Len(l) - 1) ELSE l

\* str.strip('"'): every leading and every trailing quote character goes
Strip(s) == RStrip(LStrip(s))

\* value.strip('"') if isinstance(value, str) else value
CleanValue(v) == IF IsStr(v) THEN Strip(v) ELSE v

---------------------------------------------------------------------------
(* Dicts, in insertion order *)

Has(d, k) == \E n \in 1..Len(d) : d[n][1] = k
Get(d, k) == d[CHOOSE n \in 1..Len(d) : d[n][1] = k][2]
Put(d, k, v) ==
    IF Has(d, k)
    THEN [n \in 1..Len(d) |-> IF d[n][1] = k THEN <<k, v>> ELSE d[n]]
    ELSE Append(d, <<k, v>>)
Keys(d) == {d[n][1] : n \in 1..Len(d)}

---------------------------------------------------------------------------
(* Documents and ET.fromstring *)

AttrNames ==
    {"label", "name", "componentName", "uniqueName", "field", "value",
     "connector", "type", "key", "nullable", "length", "precision", "comment",
     "defaultValue", "source", "target", "connectorName", "lineStyle",
     "metaname", "text"}

\* the attributes of a start tag, from a set of <<name, value>> pairs
A(pairs) ==
    [a \in AttrNames |->
        IF \E p \in pairs : p[1] = a
        THEN (CHOOSE p \in pairs : p[1] = a)[2]
        ELSE None]

Open(tag, attr)  == [k |-> "open",  tag |-> tag, attr |-> attr, s |-> None]
Empty(tag, attr) == [k |-> "empty", tag |-> tag, attr |-> attr, s |-> None]
Close(tag)       == [k |-> "close", tag |-> tag, attr |-> A({}), s |-> None]
Text(s)          == [k |-> "text",  tag |-> "",  attr |-> A({}), s |-> s]

El(tag, attr, kids) == <<Open(tag, attr)>> \o kids \o <<Close(tag)>>

IsSpace(s) == s = S(" ")

Element(t, parent) == [tag |-> t.tag, attr |-> t.attr, text |-> None, parent |-> parent]
Top(stack) == IF stack = <<>> THEN 0 ELSE stack[Len(stack)]
Pop(stack) == SubSeq(stack, 1, Len(stack) - 1)

\* The parser: elems are the elements met so far, in document order, each
\* with the index of its parent (0: the root); stack holds the open ones;
\* fresh is TRUE while no child and no data has followed the last start tag.
RECURSIVE ParseFrom(_, _, _, _, _)
ParseFrom(toks, n, stack, elems, fresh) ==
    IF n > Len(toks)
    THEN [ok |-> stack = <<>> /\ elems # <<>>, elems |-> elems]
    ELSE LET t == toks[n] IN
         CASE t.k = "open" ->
                IF stack = <<>> /\ elems # <<>>
                THEN [ok |-> FALSE, elems |-> elems]
                ELSE ParseFrom(toks, n + 1, Append(stack, Len(elems) + 1),
                               Append(elems, Element(t, Top(stack))), TRUE)
           [] t.k = "empty" ->
                IF stack = <<>> /\ elems # <<>>
                THEN [ok |-> FALSE, elems |-> elems]
                ELSE ParseFrom(toks, n + 1, stack,
                               Append(elems, Element(t, Top(stack))), FALSE)
           [] t.k = "close" ->
                IF stack = <<>> \/ elems[Top(stack)].tag # t.tag
                THEN [ok |-> FALSE, elems |-> elems]
                ELSE ParseFrom(toks, n + 1, Pop(stack), elems, FALSE)
           [] OTHER ->
                IF stack = <<>>
                THEN IF IsSpace(t.s)
                     THEN ParseFrom(toks, n + 1, stack, elems, FALSE)
                     ELSE [ok |-> FALSE, elems |-> elems]
                ELSE IF fresh
                     THEN ParseFrom(toks, n + 1, stack,
                                    [elems EXCEPT ![Top(stack)].text = t.s], FALSE)
                     ELSE ParseFrom(toks, n + 1, stack, elems, FALSE)

\* ET.fromstring(xml_content): ok is FALSE where it raises ET.ParseError
fromstring(toks) == ParseFrom(toks, 1, <<>>, <<>>, FALSE)

\* Element.get(key) and Element.get(key, default)
get(e, key) == e.attr[key]
getd(e, key, default) == IF e.attr[key] = None THEN default ELSE e.attr[key]

RECURSIVE IsDescendant(_, _, _)
IsDescendant(elems, n, a) ==
    IF elems[n].parent = 0 THEN FALSE
    ELSE elems[n].parent = a \/ IsDescendant(elems, elems[n].parent, a)

RECURSIVE Select(_, _, _, _, _)
Select(elems, a, tag, n, acc) ==
    IF n > Len(elems) THEN acc
    ELSE Select(elems, a, tag, n + 1,
                IF elems[n].tag = tag /\ IsDescendant(elems, n, a)
                THEN Append(acc, n) ELSE acc)

\* a.findall('.//tag'): the descendants of element a tagged tag, in document
\* order, as indices into elems; a itself is never among them
findall(elems, a, tag) == Select(elems, a, tag, 1, <<>>)

\* a.find('.//tag'): the first of them, 0 for None
find(elems, a, tag) ==
    LET l == findall(elems, a, tag) IN IF l = <<>> THEN 0 ELSE l[1]

\* a.find('.//elementParameter[@name="..."]')
findParam(elems, a, name) ==
    LET l == SelectSeq(findall(elems, a, "elementParameter"),
                       LAMBDA n : get(elems[n], "name") = name)
    IN IF l = <<>> THEN 0 ELSE l[1]

---------------------------------------------------------------------------
(* parse_talend_xml: the summary and the values it is built from *)

DefaultSummary ==
    [job_name |-> S("unknown_job"), components |-> <<>>, connections |-> <<>>,
     metadata |-> <<>>, notes |-> <<>>, error |-> None]

\* summary["error"] of the two handlers; error |-> None is the key being absent
ParseErrorText == S("Failed to parse XML")
UnexpectedErrorText == S("Unexpected error during XML parsing")

PropertyTag == "TalendProperties:Property"

DenyList ==
    {S("UNIQUE_NAME"), S("COMPONENT_NAME"), S("LABEL"), S("CONNECTION_FORMAT"),
     S("CHECK_NUM"), S("CHECK_UNIQUE_NAME"), S("ACTIVATE"), S("LOG4J_ACTIVATE"),
     S("START"), S("STARTABLE"), S("SUBTREE_START"), S("END_OF_FLOW"),
     S("PROCESS_TYPE_VERSION"), S("PROCESS_TYPE_CONTEXT"), S("PROCESS_TYPE_PROCESS"),
     S("QUERYSTORE"), S("UPDATE_COMPONENTS"), S("CURRENT_OS")}

\* the two lookups in the other order: processType before Property
ResolveJobName_swapped(elems, current) ==
    LET process_type == find(elems, 1, "processType") IN
    IF process_type # 0 /\ Truthy(get(elems[process_type], "name"))
    THEN get(elems[process_type], "name")
    ELSE LET job_info == find(elems, 1, PropertyTag) IN
         IF job_info # 0 /\ Truthy(get(elems[job_info], "label"))
         THEN get(elems[job_info], "label")
         ELSE current

\* the job name the two lookups give, or the one the summary already holds
ResolveJobName(elems, current) ==
    LET job_info == find(elems, 1, PropertyTag) IN
    IF job_info # 0 /\ Truthy(get(elems[job_info], "label"))
    THEN get(elems[job_info], "label")
    ELSE LET process_type == find(elems, 1, "processType") IN
         IF process_type # 0 /\ Truthy(get(elems[process_type], "name"))
         THEN get(elems[process_type], "name")
         ELSE current

\* the value attribute first, the content only without it
ParamValue_attr(param) ==
    IF get(param, "value") # None THEN get(param, "value") ELSE param.text

\* value = param.text if param.text is not None else param.get('value')
ParamValue(param) == IF param.text # None THEN param.text ELSE get(param, "value")

\* the generic insertion with the label left out of the denylist
InsertParam_label(params, param) ==
    LET field == get(param, "field")
        name  == get(param, "name")
        value == ParamValue(param)
    IN IF value # None /\ Truthy(field) /\ Truthy(name) /\ name \notin (DenyList \ {S("LABEL")})
       THEN Put(params, name, CleanValue(value))
       ELSE params

\* the generic insertion params[name] = cleaned_value, behind the denylist
InsertParam(params, param) ==
    LET field == get(param, "field")
        name  == get(param, "name")
        value == ParamValue(param)
    IN IF value # None /\ Truthy(field) /\ Truthy(name) /\ name \notin DenyList
       THEN Put(params, name, CleanValue(value))
       ELSE params

\* the promoted keys, with sql_query, filepath and db_table_name left unstripped
PromoteParam_raw(params, component_name, param) ==
    LET name  == get(param, "name")
        value == ParamValue(param)
    IN IF component_name = S("tMap")
       THEN LET p1 == IF name = S("VAR_TABLE")
                      THEN Put(params, S("tMap_variables_raw"), value) ELSE params
            IN IF name = S("OUTPUT_TABLES")
               THEN Put(p1, S("tMap_outputs_raw"), value) ELSE p1
       ELSE IF name = S("QUERY") /\ Truthy(value)
            THEN Put(params, S("sql_query"), value)
       ELSE IF name = S("FILENAME") /\ Truthy(value)
            THEN Put(params, S("filepath"), value)
       ELSE IF name = S("TABLE") /\ Truthy(value)
            THEN Put(params, S("db_table_name"), value)
       ELSE params

\* the promoted keys: the raw tMap tables, or sql_query, filepath, db_table_name
PromoteParam(params, component_name, param) ==
    LET name  == get(param, "name")
        value == ParamValue(param)
    IN IF component_name = S("tMap")
       THEN LET p1 == IF name = S("VAR_TABLE")
                      THEN Put(params, S("tMap_variables_raw"), value) ELSE params
            IN IF name = S("OUTPUT_TABLES")
               THEN Put(p1, S("tMap_outputs_raw"), value) ELSE p1
       ELSE IF name = S("QUERY") /\ Truthy(value)
            THEN Put(params, S("sql_query"), CleanValue(value))
       ELSE IF name = S("FILENAME") /\ Truthy(value)
            THEN Put(params, S("filepath"), CleanValue(value))
       ELSE IF name = S("TABLE") /\ Truthy(value)
            THEN Put(params, S("db_table_name"), CleanValue(value))
       ELSE params

\* one pass of the loop with the promotion instead of the generic insertion
ParamStep_instead(params, component_name, param) ==
    IF PromoteParam(params, component_name, param) # params
    THEN PromoteParam(params, component_name, param)
    ELSE InsertParam(params, param)

\* one pass of the loop over node.findall('.//elementParameter')
ParamStep(params, component_name, param) ==
    PromoteParam(InsertParam(params, param), component_name, param)

RECURSIVE ScanParams(_, _, _, _, _)
ScanParams(elems, list, n, component_name, params) ==
    IF n > Len(list) THEN params
    ELSE ScanParams(elems, list, n + 1, component_name,
                    ParamStep(params, component_name, elems[list[n]]))

\* label read from the content of the LABEL parameter, not its value attribute
LabelOf_text(elems, node) ==
    LET label_param == findParam(elems, node, S("LABEL")) IN
    IF label_param # 0 /\ Truthy(ParamValue(elems[label_param]))
    THEN Strip(ParamValue(elems[label_param]))
    ELSE get(elems[node], "uniqueName")

\* label: unique_name, overridden by the LABEL parameter's value attribute
LabelOf(elems, node) ==
    LET label_param == findParam(elems, node, S("LABEL")) IN
    IF label_param # 0 /\ Truthy(get(elems[label_param], "value"))
    THEN Strip(get(elems[label_param], "value"))
    ELSE get(elems[node], "uniqueName")

\* params["hint"] from the HINT parameter's value attribute
WithHint(elems, node, params) ==
    LET hint_param == findParam(elems, node, S("HINT")) IN
    IF hint_param # 0 /\ Truthy(get(elems[hint_param], "value"))
    THEN Put(params, S("hint"), Strip(get(elems[hint_param], "value")))
    ELSE params

ParamsOf(elems, node) ==
    WithHint(elems, node,
             ScanParams(elems, findall(elems, node, "elementParameter"), 1,
                        get(elems[node], "componentName"), <<>>))

\* col_data with nullable false when the attribute is absent
ColData_notnull(col) ==
    LET default_val == get(col, "defaultValue") IN
    [name |-> get(col, "name"), talend_type |-> get(col, "type"),
     key |-> getd(col, "key", S("false")) = S("true"),
     nullable |-> getd(col, "nullable", S("false")) = S("true"),
     length |-> get(col, "length"), precision |-> get(col, "precision"),
     comment |-> get(col, "comment"),
     default |-> IF Truthy(default_val) THEN Strip(default_val) ELSE None]

\* col_data; default |-> None is the key being absent
ColData(col) ==
    LET default_val == get(col, "defaultValue") IN
    [name |-> get(col, "name"), talend_type |-> get(col, "type"),
     key |-> getd(col, "key", S("false")) = S("true"),
     nullable |-> getd(col, "nullable", S("true")) = S("true"),
     length |-> get(col, "length"), precision |-> get(col, "precision"),
     comment |-> get(col, "comment"),
     default |-> IF Truthy(default_val) THEN Strip(default_val) ELSE None]

ColumnsOf(elems, meta_conn) ==
    LET list == findall(elems, meta_conn, "column") IN
    [n \in 1..Len(list) |-> ColData(elems[list[n]])]

SchemaOf(elems, meta_conn) ==
    [connector_type |-> get(elems[meta_conn], "connector"),
     name |-> get(elems[meta_conn], "name"),
     columns |-> ColumnsOf(elems, meta_conn)]

\* the component-local metadata list of a node
LocalMetadata(elems, node) ==
    LET list == findall(elems, node, "metadata") IN
    [n \in 1..Len(list) |-> SchemaOf(elems, list[n])]

\* the merge without its "not in" test: the last schema of a name wins
MergeSchema_overwrite(metadata, schema) ==
    IF Truthy(schema.name)
    THEN Put(metadata, schema.name, [columns |-> schema.columns])
    ELSE metadata

\* if meta_name and meta_name not in summary["metadata"]: ... = {"columns": columns}
MergeSchema(metadata, schema) ==
    IF Truthy(schema.name) /\ ~Has(metadata, schema.name)
    THEN Put(metadata, schema.name, [columns |-> schema.columns])
    ELSE metadata

RECURSIVE MergeAll(_, _, _)
MergeAll(metadata, schemas, n) ==
    IF n > Len(schemas) THEN metadata
    ELSE MergeAll(MergeSchema(metadata, schemas[n]), schemas, n + 1)

ComponentData(elems, node) ==
    [type |-> get(elems[node], "componentName"),
     unique_name |-> get(elems[node], "uniqueName"),
     label |-> LabelOf(elems, node),
     parameters |-> ParamsOf(elems, node),
     metadata |-> LocalMetadata(elems, node)]

ConnectionData(conn) ==
    [source_component_id |-> get(conn, "source"),
     target_component_id |-> get(conn, "target"),
     connector_name |-> get(conn, "connectorName"),
     line_style |-> get(conn, "lineStyle"),
     metadata_name |-> get(conn, "metaname")]

---------------------------------------------------------------------------
(* parse_talend_xml: the steps of a call *)

\* the three for-loops of the try body, by the tag each one searches
Loops == <<"node", "connection", "note">>

\* root.findall(tag) in place of root.findall('.//' + tag): children only
LoopList_children(elems, tag) ==
    SelectSeq(findall(elems, 1, tag), LAMBDA n : elems[n].parent = 1)

\* the list the loop at pc runs over
LoopList(elems, tag) == findall(elems, 1, tag)

RECURSIVE LoopFrom(_, _)
\* where control goes once the loops before the n-th are over
LoopFrom(elems, n) ==
    IF n > Len(Loops) THEN "finish"
    ELSE IF LoopList(elems, Loops[n]) # <<>> THEN Loops[n]
    ELSE LoopFrom(elems, n + 1)

LoopNo(tag) == CHOOSE n \in 1..Len(Loops) : Loops[n] = tag

\* control after pass idx of the loop at pc
AfterPass(elems, tag, n) ==
    IF n < Len(LoopList(elems, tag)) THEN tag ELSE LoopFrom(elems, LoopNo(tag) + 1)
IdxAfterPass(elems, tag, n) ==
    IF n < Len(LoopList(elems, tag)) THEN n + 1 ELSE 1

Unchanged_outside == UNCHANGED <<xml_content, prev, calls, req, resp, llm_calls>>

\* root = ET.fromstring(xml_content) returns
ParseOk ==
    /\ pc = "parse"
    /\ fromstring(xml_content).ok
    /\ root' = fromstring(xml_content).elems
    /\ pc' = "jobname"
    /\ UNCHANGED <<idx, summary, raised>>
    /\ Unchanged_outside

\* the call without its ET.ParseError handler: the exception leaves it
ParseError_uncaught ==
    /\ pc = "parse"
    /\ ~fromstring(xml_content).ok
    /\ raised' = TRUE
    /\ pc' = "raised"
    /\ UNCHANGED <<root, idx, summary>>
    /\ Unchanged_outside

\* root = ET.fromstring(xml_content) raises ET.ParseError: the first handler
ParseError ==
    /\ pc = "parse"
    /\ ~fromstring(xml_content).ok
    /\ summary' = [summary EXCEPT !.error = ParseErrorText]
    /\ pc' = "returned"
    /\ UNCHANGED <<root, idx, raised>>
    /\ Unchanged_outside

\* "Extract Job Name"
JobName ==
    /\ pc = "jobname"
    /\ summary' = [summary EXCEPT !.job_name = ResolveJobName(root, @)]
    /\ pc' = LoopFrom(root, 1)
    /\ idx' = 1
    /\ UNCHANGED <<root, raised>>
    /\ Unchanged_outside

\* one pass of "Extract Components"
Component ==
    /\ pc = "node"
    /\ LET node == LoopList(root, "node")[idx]
           component_data == ComponentData(root, node)
       IN summary' = [summary EXCEPT
                        !.metadata = MergeAll(@, component_data.metadata, 1),
                        !.components = Append(@, component_data)]
    /\ pc' = AfterPass(root, "node", idx)
    /\ idx' = IdxAfterPass(root, "node", idx)
    /\ UNCHANGED <<root, raised>>
    /\ Unchanged_outside

\* one pass of "Extract Connections"
Connection ==
    /\ pc = "connection"
    /\ LET conn == LoopList(root, "connection")[idx]
       IN summary' = [summary EXCEPT
                        !.connections = Append(@, ConnectionData(root[conn]))]
    /\ pc' = AfterPass(root, "connection", idx)
    /\ idx' = IdxAfterPass(root, "connection", idx)
    /\ UNCHANGED <<root, raised>>
    /\ Unchanged_outside

\* one pass of "Extract Notes"
Note ==
    /\ pc = "note"
    /\ LET note == LoopList(root, "note")[idx]
       IN summary' = [summary EXCEPT !.notes = Append(@, get(root[note], "text"))]
    /\ pc' = AfterPass(root, "note", idx)
    /\ idx' = IdxAfterPass(root, "note", idx)
    /\ UNCHANGED <<root, raised>>
    /\ Unchanged_outside

\* the try body is over: return summary
Return ==
    /\ pc = "finish"
    /\ pc' = "returned"
    /\ UNCHANGED <<root, idx, summary, raised>>
    /\ Unchanged_outside

Next == ParseOk \/ ParseError \/ JobName \/ Component \/ Connection \/ Note \/ Return

---------------------------------------------------------------------------
(* The second handler, repeated calls, and the /convert route *)

\* an exception that is no ET.ParseError leaves a statement of the try body
Unexpected_reset ==
    /\ pc \in {"parse", "jobname", "node", "connection", "note", "finish"}
    /\ summary' = [DefaultSummary EXCEPT !.error = UnexpectedErrorText]
    /\ pc' = "returned"
    /\ UNCHANGED <<root, idx, raised>>
    /\ Unchanged_outside

\* an exception that is no ET.ParseError leaves a statement of the try body:
\* the second handler records it in the summary built so far
Unexpected ==
    /\ pc \in {"parse", "jobname", "node", "connection", "note", "finish"}
    /\ summary' = [summary EXCEPT !.error = UnexpectedErrorText]
    /\ pc' = "returned"
    /\ UNCHANGED <<root, idx, raised>>
    /\ Unchanged_outside

NextFail == Next \/ Unexpected

MaxCalls == 3

\* the documents of the repeated calls (defined with the inputs below)
RECURSIVE Concat(_)
Concat(seqs) == IF seqs = <<>> THEN <<>> ELSE Head(seqs) \o Concat(Tail(seqs))

ProcessTag == "talendfile:ProcessType"

ConnectionTag ==
    Empty("connection",
          A({<<"source", S("tDBInput_1")>>, <<"target", S("tMap_1")>>,
             <<"connectorName", S("FLOW")>>, <<"lineStyle", S("0")>>,
             <<"metaname", S("m1")>>}))
NoteTag == Empty("note", A({<<"text", S("a note")>>}))
PropertyEl(label) ==
    <<Empty(PropertyTag, A({p \in {<<"label", label>>} : p[2] # None}))>>
ProcessTypeEl(name) ==
    <<Empty("processType", A({p \in {<<"name", name>>} : p[2] # None}))>>

\* a job document: its body, then a connection and a note
JobDoc(rootTag, rootAttr, body) ==
    El(rootTag, rootAttr, body \o <<ConnectionTag, NoteTag>>)

\* the text cut before its last tag: an unclosed element
Unclosed(doc) == SubSeq(doc, 1, Len(doc) - 1)
WithUnclosed(F) == F \cup {Unclosed(d) : d \in F}

NodeEl(type, unique, body) ==
    El("node", A({<<"componentName", S(type)>>, <<"uniqueName", S(unique)>>}), body)

SampleDocs ==
    {JobDoc(ProcessTag, A({}), PropertyEl(S("JobA")) \o NodeEl("tDBInput", "tDBInput_1", <<>>)),
     JobDoc(ProcessTag, A({}), NodeEl("tMap", "tMap_1", <<>>) \o NodeEl("tDBInput", "tDBInput_1", <<>>)),
     Unclosed(JobDoc(ProcessTag, A({}), <<>>)),
     <<Empty(ProcessTag, A({}))>>}

\* parse_talend_xml entered again with summary a dict shared by the calls
CallAgain_shared ==
    /\ req = "none"
    /\ pc = "returned"
    /\ calls < MaxCalls
    /\ \E keep \in BOOLEAN :
          prev' = IF keep THEN [input |-> xml_content, summary |-> summary, set |-> TRUE, call |-> calls]
                  ELSE prev
    /\ xml_content' \in SampleDocs
    /\ root' = <<>>
    /\ idx' = 1
    /\ pc' = "parse"
    /\ calls' = calls + 1
    /\ UNCHANGED <<summary, raised, req, resp, llm_calls>>

\* parse_talend_xml is entered again, on any document, with a summary of its
\* own; the call that returned may be kept for comparison
CallAgain ==
    /\ req = "none"
    /\ pc = "returned"
    /\ calls < MaxCalls
    /\ \E keep \in BOOLEAN :
          prev' = IF keep THEN [input |-> xml_content, summary |-> summary, set |-> TRUE, call |-> calls]
                  ELSE prev
    /\ xml_content' \in SampleDocs
    /\ summary' = DefaultSummary
    /\ root' = <<>>
    /\ idx' = 1
    /\ pc' = "parse"
    /\ calls' = calls + 1
    /\ UNCHANGED <<raised, req, resp, llm_calls>>

NextTwice == Next \/ CallAgain

Unchanged_call == UNCHANGED <<xml_content, root, idx, summary, raised, prev, calls>>

\* if "error" in talend_summary, with the check left out
HasError_never(s) == FALSE

\* if "error" in talend_summary
HasError(s) == s.error # None

\* convert(): one of the three checks of the uploaded file part answers 400
ConvertReject ==
    /\ req = "received"
    /\ resp' = 400
    /\ req' = "done"
    /\ UNCHANGED <<pc, llm_calls>>
    /\ Unchanged_call

\* convert(): the upload is saved and read; an empty file answers 400,
\* any other content goes to parse_talend_xml
ConvertRead ==
    /\ req = "received"
    /\ IF xml_content = <<>>
       THEN resp' = 400 /\ req' = "done" /\ pc' = pc
       ELSE resp' = resp /\ req' = "parsing" /\ pc' = "parse"
    /\ UNCHANGED llm_calls
    /\ Unchanged_call

\* convert(): the summary bears an error: answer 500
ConvertAbort ==
    /\ req = "parsing"
    /\ pc = "returned"
    /\ HasError(summary)
    /\ resp' = 500
    /\ req' = "done"
    /\ UNCHANGED <<pc, llm_calls>>
    /\ Unchanged_call

\* convert(): the prompt is built and call_generative_model is called; a
\* reply that starts with "-- ERROR" answers 500
ConvertCallModel ==
    /\ req = "parsing"
    /\ pc = "returned"
    /\ ~HasError(summary)
    /\ llm_calls' = llm_calls + 1
    /\ \E failed \in BOOLEAN :
          IF failed THEN resp' = 500 /\ req' = "done"
          ELSE resp' = resp /\ req' = "generated"
    /\ UNCHANGED pc
    /\ Unchanged_call

\* convert(): the reply is written out and zipped; answer 200
ConvertRespond ==
    /\ req = "generated"
    /\ resp' = 200
    /\ req' = "done"
    /\ UNCHANGED <<pc, llm_calls>>
    /\ Unchanged_call

\* convert(): an exception while saving, reading or writing files: answer 500
ConvertFails ==
    /\ req \in {"received", "generated"}
    /\ resp' = 500
    /\ req' = "done"
    /\ UNCHANGED <<pc, llm_calls>>
    /\ Unchanged_call

NextConvert ==
    \/ Next
    \/ ConvertReject \/ ConvertRead \/ ConvertAbort
    \/ ConvertCallModel \/ ConvertRespond \/ ConvertFails

---------------------------------------------------------------------------
(* Inputs *)

MaxTokens == 5
MaxProps == 2
MaxParams == 2
MaxCols == 1

NoPrev == [input |-> <<>>, summary |-> DefaultSummary, set |-> FALSE, call |-> 0]

\* a call of parse_talend_xml on one of the documents of F, summary just built
Entered(F) ==
    /\ xml_content \in F
    /\ pc = "parse"
    /\ root = <<>>
    /\ idx = 1
    /\ summary = DefaultSummary
    /\ raised = FALSE
    /\ prev = NoPrev
    /\ calls = 1
    /\ req = "none"
    /\ resp = 0
    /\ llm_calls = 0

\* a /convert request whose upload holds one of the documents of F
Received(F) ==
    /\ xml_content \in F
    /\ pc = "idle"
    /\ root = <<>>
    /\ idx = 1
    /\ summary = DefaultSummary
    /\ raised = FALSE
    /\ prev = NoPrev
    /\ calls = 1
    /\ req = "received"
    /\ resp = 0
    /\ llm_calls = 0

\* the concatenations of at most max members of the set elems of token sequences
SeqsOf(elems, max) ==
    {Concat(q) : q \in UNION {[1..n -> elems] : n \in 0..max}}

XmlTokens ==
    {Open(ProcessTag, A({})), Close(ProcessTag),
     Open("node", A({<<"componentName", S("tDBInput")>>, <<"uniqueName", S("tDBInput_1")>>})),
     Close("node"),
     Empty("node", A({<<"componentName", S("tMap")>>})),
     ConnectionTag, NoteTag}

\* every text of at most MaxTokens of these tokens, well-formed or not
XmlTexts == UNION {[1..n -> XmlTokens] : n \in 0..MaxTokens}

\* documents that differ in their Property and processType elements
JobElems ==
    {PropertyEl(None), PropertyEl(<<>>), PropertyEl(S("JobA")), PropertyEl(S("JobB")),
     ProcessTypeEl(None), ProcessTypeEl(<<>>), ProcessTypeEl(S("ProcA")),
     <<Empty("Property", A({<<"label", S("Plain")>>}))>>,
     El("container", A({}), PropertyEl(S("JobC")))}
JobRoots ==
    {<<ProcessTag, A({})>>,
     <<PropertyTag, A({<<"label", S("RootJob")>>})>>,
     <<"processType", A({<<"name", S("RootProc")>>})>>}
JobDocs ==
    WithUnclosed({JobDoc(r[1], r[2], b \o NodeEl("tMap", "tMap_1", <<>>)) :
                     r \in JobRoots, b \in SeqsOf(JobElems, MaxProps)})

\* an elementParameter with these attributes (None: absent) and no content
ParamAttrs(field, name, value) ==
    A({p \in {<<"field", field>>, <<"name", name>>, <<"value", value>>} : p[2] # None})
Param(field, name, value) == <<Empty("elementParameter", ParamAttrs(field, name, value))>>
\* an elementParameter with content
ParamWith(field, name, value, content) ==
    El("elementParameter", ParamAttrs(field, name, value), content)

PromotedParams ==
    {Param(S("MEMO_SQL"), S("QUERY"), Quoted(S("SELECT 1"))),
     Param(S("FILE"), S("FILENAME"), Quoted(S("/data/in.csv"))),
     Param(S("DBTABLE"), S("TABLE"), Quoted(S("orders"))),
     Param(S("TABLE"), S("VAR_TABLE"), Quoted(S("vars"))),
     Param(S("TABLE"), S("OUTPUT_TABLES"), Quoted(S("outs"))),
     Param(S("TEXT"), S("HINT"), Quoted(S("a hint")))}

DeniedParams == {Param(S("CHECK"), n, Quoted(S("x"))) : n \in DenyList}

OtherParams ==
    {Param(S("TEXT"), S("LABEL"), Quoted(S("MyStep"))),
     Param(S("TEXT"), S("LABEL"), <<>>),
     Param(S("TEXT"), S("LABEL"), None),
     ParamWith(S("TEXT"), S("LABEL"), None, <<Text(S("InText"))>>),
     Param(S("MEMO_SQL"), S("QUERY"), <<>>),
     Param(None, S("QUERY"), Quoted(S("SELECT 2"))),
     ParamWith(S("MEMO_SQL"), S("QUERY"), Quoted(S("SELECT 3")), <<Text(S("SELECT 4"))>>),
     Param(S("FILE"), S("FILENAME"), Quoted(Quoted(S("/data/out.csv")))),
     Param(S("FILE"), S("FILENAME"), S("plain.csv")),
     Param(S("TEXT"), S("BAR"), <<Q, "a", Q, "b">>),
     ParamWith(S("TEXT"), S("BAZ"), S("attr"),
               <<Empty("elementValue", A({})), Text(S("tail"))>>),
     Param(S("TABLE"), S("VAR_TABLE"), None),
     ParamWith(S("TEXT"), S("FOO"), Quoted(S("foo")),
               <<Text(S(" ")), Empty("elementValue", A({}))>>),
     Param(S("TEXT"), None, Quoted(S("anon")))}

NodeTypes == {"tMap", "tDBInput"}

NodeDocs(params) ==
    WithUnclosed({JobDoc(ProcessTag, A({}), NodeEl(t, "step_1", b)) :
                     t \in NodeTypes, b \in SeqsOf(params, MaxParams)})

DenyDocs == NodeDocs(DeniedParams \cup PromotedParams)
ParamDocs == NodeDocs(PromotedParams \cup OtherParams)

\* documents of two nodes with a schema each
ColumnAttrs ==
    {A({<<"name", S("id")>>, <<"type", S("id_Integer")>>, <<"key", S("true")>>,
        <<"nullable", S("false")>>, <<"length", S("10")>>, <<"precision", S("0")>>,
        <<"comment", S("the key")>>, <<"defaultValue", Quoted(S("0"))>>}),
     A({<<"name", S("name")>>, <<"type", S("id_String")>>}),
     A({<<"name", S("city")>>, <<"type", S("id_String")>>, <<"key", S("false")>>,
        <<"nullable", S("true")>>, <<"defaultValue", <<>>>>}),
     A({<<"type", S("id_Date")>>, <<"key", S("yes")>>, <<"nullable", S("no")>>,
        <<"defaultValue", S("now")>>})}
ColumnEls == {<<Empty("column", a)>> : a \in ColumnAttrs}

SchemaNames == {None, <<>>, S("m1"), S("m2")}
SchemaEls ==
    {El("metadata", A({p \in {<<"connector", S("FLOW")>>, <<"name", n>>} : p[2] # None}), c) :
        n \in SchemaNames, c \in SeqsOf(ColumnEls, MaxCols)}

MetaDocs ==
    WithUnclosed(
        {JobDoc(ProcessTag, A({}),
                PropertyEl(S("JobA"))
                    \o NodeEl("tDBInput", "tDBInput_1", m1)
                    \o NodeEl("tMap", "tMap_1", m2)) :
            m1 \in SchemaEls, m2 \in SchemaEls}
        \cup
        {JobDoc(ProcessTag, A({}),
                NodeEl("tDBInput", "tDBInput_1", m1 \o NodeEl("tMap", "tMap_1", m2))) :
            m1 \in SchemaEls, m2 \in SchemaEls})

Init == Entered(XmlTexts)
InitJob == Entered(JobDocs)
InitDeny == Entered(DenyDocs)
InitParams == Entered(ParamDocs)
InitMeta == Entered(MetaDocs)
InitTwice == Entered(SampleDocs)
InitConvert == Received(JobDocs \cup {<<>>})

Spec == Init /\ [][Next]_vars
SpecJob == InitJob /\ [][Next]_vars
SpecDeny == InitDeny /\ [][Next]_vars
SpecParams == InitParams /\ [][Next]_vars
SpecMeta == InitMeta /\ [][Next]_vars
SpecFail == InitMeta /\ [][NextFail]_vars
SpecTwice == InitTwice /\ [][NextTwice]_vars
SpecConvert == InitConvert /\ [][NextConvert]_vars

---------------------------------------------------------------------------
(* Well-formedness of a text, stated on its tokens *)

Opens(t) == t.k = "open"
Starts(t) == t.k \in {"open", "empty"}

RECURSIVE Depth(_, _)
\* the number of elements open after the first n tokens
Depth(toks, n) ==
    IF n = 0 THEN 0
    ELSE LET d == Depth(toks, n - 1) IN
         IF toks[n].k = "open" THEN d + 1
         ELSE IF toks[n].k = "close" /\ d > 0 THEN d - 1
         ELSE d

\* the start tag an end tag at n closes: the last one before it at its depth
Partner(toks, n) ==
    LET c == {m \in 1..(n - 1) : Opens(toks[m]) /\ Depth(toks, m - 1) = Depth(toks, n)}
    IN IF c = {} THEN 0 ELSE CHOOSE m \in c : \A o \in c : o <= m

TopLevel(toks) == {n \in 1..Len(toks) : Depth(toks, n - 1) = 0}

WellFormed(toks) ==
    /\ Depth(toks, Len(toks)) = 0
    /\ Cardinality({n \in TopLevel(toks) : Starts(toks[n])}) = 1
    /\ \A n \in TopLevel(toks) : Starts(toks[n]) \/ (toks[n].k = "text" /\ IsSpace(toks[n].s))
    /\ \A n \in 1..Len(toks) :
          toks[n].k = "close" =>
             /\ Partner(toks, n) # 0
             /\ toks[Partner(toks, n)].tag = toks[n].tag

\* the position of the root element's tag
RootAt(toks) == CHOOSE n \in TopLevel(toks) : Starts(toks[n])

\* the positions of the tags that start an element tagged tag, in document order
TagsAt(toks, tag) ==
    SelectSeq([n \in 1..Len(toks) |-> n],
              LAMBDA n : Starts(toks[n]) /\ toks[n].tag = tag)

Returned == pc = "returned"
Succeeded == Returned /\ summary.error = None

---------------------------------------------------------------------------
(* Claims *)

\* C1: parse_talend_xml never raises to its caller and always goes on to its
\* return; for a text that is not well-formed XML the summary it returns has
\* error set, job_name "unknown_job" and components, connections, notes and
\* metadata empty.
C1_NeverRaises ==
    /\ ~raised
    /\ ~Returned => ENABLED Next
    /\ (Returned /\ ~WellFormed(xml_content)) =>
          /\ summary.error # None
          /\ summary.job_name = S("unknown_job")
          /\ summary.components = <<>>
          /\ summary.connections = <<>>
          /\ summary.notes = <<>>
          /\ summary.metadata = <<>>

\* a call on a text with an unclosed tag has returned
C1_Witness ==
    /\ Returned
    /\ Len(xml_content) = 2
    /\ Opens(xml_content[1]) /\ Starts(xml_content[2])
    /\ summary.error = ParseErrorText

\* the components of the summary are the elements started at positions at
ComponentsAre(toks, at) ==
    /\ Len(summary.components) = Len(at)
    /\ \A n \in 1..Len(at) :
          /\ summary.components[n].type = toks[at[n]].attr["componentName"]
          /\ summary.components[n].unique_name = toks[at[n]].attr["uniqueName"]

\* C4 as stated: one component per element tagged "node" anywhere in the
\* document, the root element included, in document order.
C4_AnyElement ==
    (Returned /\ WellFormed(xml_content)) =>
        /\ summary.error = None
        /\ ComponentsAre(xml_content, TagsAt(xml_content, "node"))

\* C4, amended: for a well-formed document the call returns no error and
\* components holds, in document order, one component per element tagged
\* "node" strictly below the root element, with type its componentName and
\* unique_name its uniqueName; without such elements components is empty.
C4_BelowRoot ==
    (Returned /\ WellFormed(xml_content)) =>
        /\ summary.error = None
        /\ ComponentsAre(xml_content,
                         SelectSeq(TagsAt(xml_content, "node"),
                                   LAMBDA n : n # RootAt(xml_content)))

\* a document with a node nested in a node below the root has been extracted
C4_Witness ==
    /\ Succeeded
    /\ Len(summary.components) = 2
    /\ Len(xml_content) = 5
    /\ Opens(xml_content[2]) /\ xml_content[2].tag = "node"
    /\ xml_content[3].tag = "node"

Range(q) == {q[n] : n \in 1..Len(q)}

\* the last tag of the element started at n
CloseOf(toks, n) ==
    IF toks[n].k = "empty" THEN n
    ELSE CHOOSE m \in (n + 1)..Len(toks) :
            /\ Depth(toks, m) = Depth(toks, n - 1)
            /\ \A o \in (n + 1)..(m - 1) : Depth(toks, o) > Depth(toks, n - 1)

\* the element started at m lies inside the one started at n
Inside(toks, m, n) == n < m /\ m <= CloseOf(toks, n)

\* the positions of the elements tagged tag inside the one started at n
TagsIn(toks, tag, n) == SelectSeq(TagsAt(toks, tag), LAMBDA m : Inside(toks, m, n))

\* the positions of the elements tagged tag other than the root
TagsBelowRoot(toks, tag) == SelectSeq(TagsAt(toks, tag), LAMBDA n : n # RootAt(toks))

\* C2: the eighteen denylisted parameter names
C2_Names ==
    {S("UNIQUE_NAME"), S("COMPONENT_NAME"), S("LABEL"), S("CONNECTION_FORMAT"),
     S("CHECK_NUM"), S("CHECK_UNIQUE_NAME"), S("ACTIVATE"), S("LOG4J_ACTIVATE"),
     S("START"), S("STARTABLE"), S("SUBTREE_START"), S("END_OF_FLOW"),
     S("PROCESS_TYPE_VERSION"), S("PROCESS_TYPE_CONTEXT"), S("PROCESS_TYPE_PROCESS"),
     S("QUERYSTORE"), S("UPDATE_COMPONENTS"), S("CURRENT_OS")}

\* C2: no key of the parameters of any component of the summary is a
\* denylisted parameter name, whatever else the component's parameters
\* promote.
C2_NoDeniedKey ==
    \A n \in 1..Len(summary.components) :
        Keys(summary.components[n].parameters) \cap C2_Names = {}

\* a node with a LABEL parameter, field and value set, next to a promoted
\* QUERY parameter has been extracted
C2_Witness ==
    /\ Succeeded
    /\ \E n \in 1..Len(xml_content) :
          /\ xml_content[n].tag = "elementParameter"
          /\ xml_content[n].attr["name"] = S("LABEL")
          /\ Truthy(xml_content[n].attr["field"])
          /\ Truthy(xml_content[n].attr["value"])
    /\ Has(summary.components[1].parameters, S("sql_query"))

\* the columns of a summary schema, and of the schema started at n, by name and type
ColumnIds(columns) == [n \in 1..Len(columns) |-> <<columns[n].name, columns[n].talend_type>>]
ColumnIdsAt(toks, n) ==
    LET at == TagsIn(toks, "column", n)
    IN [c \in 1..Len(at) |-> <<toks[at[c]].attr["name"], toks[at[c]].attr["type"]>>]

\* the schemas inside node elements below the root, and the first of a name
SchemasAt(toks) ==
    SelectSeq(TagsAt(toks, "metadata"),
              LAMBDA m : \E n \in Range(TagsBelowRoot(toks, "node")) : Inside(toks, m, n))
FirstNamed(toks, name) ==
    LET at == SelectSeq(SchemasAt(toks), LAMBDA m : toks[m].attr["name"] = name)
    IN at[1]

\* the local metadata lists of the components are the schemas of their nodes
LocalListsMatch ==
    \A c \in 1..Len(summary.components) :
        LET node == TagsBelowRoot(xml_content, "node")[c]
            at == TagsIn(xml_content, "metadata", node)
            local == summary.components[c].metadata
        IN /\ Len(local) = Len(at)
           /\ \A x \in 1..Len(at) :
                 /\ local[x].name = xml_content[at[x]].attr["name"]
                 /\ ColumnIds(local[x].columns) = ColumnIdsAt(xml_content, at[x])

\* C3 as stated: for every name attribute two schemas may share, the empty
\* one too, metadata[name] holds the columns of the first schema of that name
\* in document order, and every schema is in the local list of its component.
C3_AnyName ==
    Succeeded =>
        /\ \A m \in Range(SchemasAt(xml_content)) :
              LET name == xml_content[m].attr["name"] IN
              name # None =>
                  /\ Has(summary.metadata, name)
                  /\ ColumnIds(Get(summary.metadata, name).columns)
                        = ColumnIdsAt(xml_content, FirstNamed(xml_content, name))
        /\ LocalListsMatch

\* C3, amended: the job-level metadata is first-seen-wins by schema name for
\* names that are not empty: an entry of it holds, from the step that adds it
\* on, the columns of the first schema of that name in document order; when
\* the call has returned, every schema of a component whose name is not
\* empty has its entry, a schema whose name is absent or empty has none, and
\* every schema, a later one of the same name too, is in the local metadata
\* list of its component with its own columns.
C3_FirstSeenWins ==
    /\ \A e \in 1..Len(summary.metadata) :
          /\ Truthy(summary.metadata[e][1])
          /\ ColumnIds(summary.metadata[e][2].columns)
                = ColumnIdsAt(xml_content, FirstNamed(xml_content, summary.metadata[e][1]))
    /\ Succeeded =>
          /\ \A m \in Range(SchemasAt(xml_content)) :
                Truthy(xml_content[m].attr["name"]) =>
                    Has(summary.metadata, xml_content[m].attr["name"])
          /\ LocalListsMatch

\* two components, side by side, each with a schema named m1, the columns
\* of the two differing
C3_Witness ==
    /\ Succeeded
    /\ Len(summary.components) = 2
    /\ Len(summary.components[1].metadata) = 1
    /\ Len(summary.components[2].metadata) = 1
    /\ summary.components[1].metadata[1].name = S("m1")
    /\ summary.components[2].metadata[1].name = S("m1")
    /\ summary.components[1].metadata[1].columns # summary.components[2].metadata[1].columns
    /\ Len(summary.metadata) = 1

\* the Property labels and processType names of the tags at the positions at
LabelAt(toks, n) == toks[n].attr["label"]
NameAt(toks, n) == toks[n].attr["name"]

\* C5 as stated: a Property element with a non-empty label anywhere in the
\* document gives the job name; failing that, a processType element with a
\* non-empty name; failing both, "unknown_job".
C5_AnyProperty ==
    Succeeded =>
        LET props == {n \in 1..Len(xml_content) :
                         /\ Starts(xml_content[n]) /\ xml_content[n].tag = PropertyTag
                         /\ Truthy(LabelAt(xml_content, n))}
            types == {n \in 1..Len(xml_content) :
                         /\ Starts(xml_content[n]) /\ xml_content[n].tag = "processType"
                         /\ Truthy(NameAt(xml_content, n))}
        IN IF props # {} THEN \E n \in props : summary.job_name = LabelAt(xml_content, n)
           ELSE IF types # {} THEN \E n \in types : summary.job_name = NameAt(xml_content, n)
           ELSE summary.job_name = S("unknown_job")

\* C5, amended: job_name is the label of the first namespaced Property
\* element below the root element, in document order, if that label is not
\* empty; otherwise the name of the first processType element below the root
\* if that name is not empty; otherwise "unknown_job".
C5_FirstBelowRoot ==
    Succeeded =>
        LET props == TagsBelowRoot(xml_content, PropertyTag)
            types == TagsBelowRoot(xml_content, "processType")
        IN IF props # <<>> /\ Truthy(LabelAt(xml_content, props[1]))
           THEN summary.job_name = LabelAt(xml_content, props[1])
           ELSE IF types # <<>> /\ Truthy(NameAt(xml_content, types[1]))
           THEN summary.job_name = NameAt(xml_content, types[1])
           ELSE summary.job_name = S("unknown_job")

\* a document whose first Property has an empty label and whose first
\* processType has a name: the fallback has given the job name
C5_Witness ==
    /\ Succeeded
    /\ summary.job_name = S("ProcA")
    /\ TagsBelowRoot(xml_content, PropertyTag) # <<>>
    /\ LabelAt(xml_content, TagsBelowRoot(xml_content, PropertyTag)[1]) = <<>>

\* the value of the elementParameter started at n: its content, else its value attribute
ValueAt(toks, n) ==
    IF toks[n].k = "open" /\ toks[n + 1].k = "text" THEN toks[n + 1].s
    ELSE toks[n].attr["value"]

\* the elementParameter elements named name inside the node of component c
ParamsNamed(toks, c, name) ==
    SelectSeq(TagsIn(toks, "elementParameter", TagsBelowRoot(toks, "node")[c]),
              LAMBDA n : toks[n].attr["name"] = name)
ValuedParams(toks, c, name) ==
    SelectSeq(ParamsNamed(toks, c, name), LAMBDA n : Truthy(ValueAt(toks, n)))

Last(q) == q[Len(q)]

Promotions ==
    {<<S("QUERY"), S("sql_query")>>, <<S("FILENAME"), S("filepath")>>,
     <<S("TABLE"), S("db_table_name")>>}

\* the promoted key of pr is in the parameters of component c, with the
\* stripped value of the last parameter of that name that has a value
Promoted(c, pr) ==
    /\ Has(summary.components[c].parameters, pr[2])
    /\ Get(summary.components[c].parameters, pr[2])
          = Strip(ValueAt(xml_content, Last(ValuedParams(xml_content, c, pr[1]))))

\* C6 as stated: in every component, whatever its type, a QUERY, FILENAME or
\* TABLE parameter with a non-empty value gives parameters sql_query,
\* filepath or db_table_name, equal to that value with its surrounding
\* quotes stripped.
C6_AnyType ==
    Succeeded =>
        \A c \in 1..Len(summary.components) : \A pr \in Promotions :
            ValuedParams(xml_content, c, pr[1]) # <<>> => Promoted(c, pr)

\* C6, amended: in every component whose type is not tMap, a QUERY, FILENAME
\* or TABLE parameter with a non-empty value (its content, else its value
\* attribute) gives parameters sql_query, filepath or db_table_name, equal to
\* the value of the last such parameter with its surrounding quotes
\* stripped; a component of type tMap gets none of the three keys.
C6_NotTMap ==
    Succeeded =>
        \A c \in 1..Len(summary.components) : \A pr \in Promotions :
            IF summary.components[c].type = S("tMap")
            THEN ~Has(summary.components[c].parameters, pr[2])
            ELSE ValuedParams(xml_content, c, pr[1]) # <<>> => Promoted(c, pr)

\* a tDBInput node with QUERY "SELECT 1" and FILENAME "/data/in.csv", both
\* in quotes, has been extracted
C6_Witness ==
    /\ Succeeded
    /\ summary.components[1].type = S("tDBInput")
    /\ ParamsNamed(xml_content, 1, S("QUERY")) # <<>>
    /\ ValueAt(xml_content, Last(ParamsNamed(xml_content, 1, S("QUERY")))) = Quoted(S("SELECT 1"))
    /\ Has(summary.components[1].parameters, S("sql_query"))
    /\ Has(summary.components[1].parameters, S("filepath"))
    /\ Get(summary.components[1].parameters, S("sql_query")) = S("SELECT 1")
    /\ Get(summary.components[1].parameters, S("filepath")) = S("/data/in.csv")

\* C7 as stated: the label of a component is its unique_name when the node
\* has no LABEL parameter, and the quote-stripped value of a LABEL parameter
\* whenever the node has a LABEL parameter with a non-empty value attribute.
C7_AnyLabel ==
    Succeeded =>
        \A c \in 1..Len(summary.components) :
            LET labels == ParamsNamed(xml_content, c, S("LABEL"))
                valued == SelectSeq(labels, LAMBDA n : Truthy(xml_content[n].attr["value"]))
            IN /\ labels = <<>> =>
                     summary.components[c].label = summary.components[c].unique_name
               /\ valued # <<>> =>
                     \E x \in 1..Len(valued) :
                         summary.components[c].label
                            = Strip(xml_content[valued[x]].attr["value"])

\* C7, amended: the label of a component is the quote-stripped value
\* attribute of the first LABEL parameter of its node, in document order,
\* when that attribute is present and not empty, and its unique_name
\* otherwise: when the node has no LABEL parameter, and when the first one
\* has no value attribute or an empty one, whatever a later one holds.
C7_FirstLabel ==
    Succeeded =>
        \A c \in 1..Len(summary.components) :
            LET labels == ParamsNamed(xml_content, c, S("LABEL")) IN
            IF labels # <<>> /\ Truthy(xml_content[labels[1]].attr["value"])
            THEN summary.components[c].label = Strip(xml_content[labels[1]].attr["value"])
            ELSE summary.components[c].label = summary.components[c].unique_name

\* a node whose LABEL parameter has the value "MyStep", in quotes, has been extracted
C7_Witness ==
    /\ Succeeded
    /\ ParamsNamed(xml_content, 1, S("LABEL")) # <<>>
    /\ xml_content[ParamsNamed(xml_content, 1, S("LABEL"))[1]].attr["value"] = Quoted(S("MyStep"))
    /\ summary.components[1].label = S("MyStep")
    /\ summary.components[1].unique_name = S("step_1")

IsPrefix(a, b) == Len(a) <= Len(b) /\ SubSeq(b, 1, Len(a)) = a

\* C8: a failure that is no parse error, at any point after the parse, ends
\* the call with error set, and no step of the call, that one included,
\* discards or resets what the summary holds: the components, connections,
\* notes and job-level metadata entries only grow, and a job name once
\* resolved stays.
C8_PartialResult ==
    [][/\ IsPrefix(summary.components, summary'.components)
       /\ IsPrefix(summary.connections, summary'.connections)
       /\ IsPrefix(summary.notes, summary'.notes)
       /\ IsPrefix(summary.metadata, summary'.metadata)
       /\ summary.job_name # S("unknown_job") => summary'.job_name = summary.job_name
       /\ (pc \in {"jobname", "node", "connection", "note"} /\ pc' = "returned")
             => summary'.error # None]_vars

\* a call that failed after the first of its two components: job name,
\* component and metadata entry are in the summary it returned
C8_Witness ==
    /\ Returned
    /\ summary.error = UnexpectedErrorText
    /\ summary.job_name = S("JobA")
    /\ Len(summary.components) = 1
    /\ Len(summary.metadata) = 1
    /\ Len(TagsAt(xml_content, "node")) = 2

\* C9: a call returns the summary an earlier call on the same text
\* returned, whatever was called in between.
C9_SameSummary ==
    (Returned /\ prev.set /\ prev.input = xml_content) => summary = prev.summary

\* the third call, on the text of the first, has returned two components
C9_Witness ==
    /\ Returned
    /\ calls = 3
    /\ prev.set /\ prev.call = 1
    /\ prev.input = xml_content
    /\ Len(summary.components) = 2

\* C10: /convert calls the generative model only once parse_talend_xml has
\* returned a summary without error, and at most once; a request whose
\* summary bears an error ends with status 500 and no model call.
C10_NoModelCallOnError ==
    /\ llm_calls > 0 => (pc = "returned" /\ summary.error = None)
    /\ llm_calls <= 1
    /\ (pc = "returned" /\ summary.error # None) => llm_calls = 0
    /\ (pc = "returned" /\ summary.error # None /\ req = "done") => resp = 500
    /\ req # "done" => ENABLED NextConvert

\* a request with an unclosed element has been answered 500 without a model call
C10_Witness ==
    /\ req = "done"
    /\ resp = 500
    /\ pc = "returned"
    /\ summary.error = ParseErrorText
    /\ llm_calls = 0

\* the string s without its leading and trailing quote characters
Core(s) ==
    LET inner == {n \in 1..Len(s) : s[n] # Q} IN
    IF inner = {} THEN <<>>
    ELSE SubSeq(s, CHOOSE n \in inner : \A m \in inner : n <= m,
                   CHOOSE n \in inner : \A m \in inner : m <= n)

\* the elementParameter elements inside the node of component c
ParamsIn(toks, c) == TagsIn(toks, "elementParameter", TagsBelowRoot(toks, "node")[c])
TypeAt(toks, c) == toks[TagsBelowRoot(toks, "node")[c]].attr["componentName"]

\* the promoted key that the elementParameter started at p sets in component
\* c, None when it sets none
PromotedKey(toks, c, p) ==
    LET name == toks[p].attr["name"] IN
    IF TypeAt(toks, c) = S("tMap")
    THEN IF name = S("VAR_TABLE") THEN S("tMap_variables_raw")
         ELSE IF name = S("OUTPUT_TABLES") THEN S("tMap_outputs_raw")
         ELSE None
    ELSE IF ~Truthy(ValueAt(toks, p)) THEN None
         ELSE IF name = S("QUERY") THEN S("sql_query")
         ELSE IF name = S("FILENAME") THEN S("filepath")
         ELSE IF name = S("TABLE") THEN S("db_table_name")
         ELSE None

\* the parameters of component c named name that have a field and a value
WithField(toks, c, name) ==
    SelectSeq(ParamsNamed(toks, c, name),
              LAMBDA n : Truthy(toks[n].attr["field"]) /\ ValueAt(toks, n) # None)

\* C11 as stated: whenever an elementParameter sets a promoted key of a
\* component, the parameters of the component also hold the parameter under
\* its own name, with its quote-stripped value when no later parameter of
\* that name follows it.
C11_AlsoByName ==
    Succeeded =>
        \A c \in 1..Len(summary.components) : \A p \in Range(ParamsIn(xml_content, c)) :
            PromotedKey(xml_content, c, p) # None =>
                LET name == xml_content[p].attr["name"] IN
                /\ Has(summary.components[c].parameters, PromotedKey(xml_content, c, p))
                /\ Has(summary.components[c].parameters, name)
                /\ p = Last(ParamsNamed(xml_content, c, name)) =>
                      Get(summary.components[c].parameters, name)
                         = Core(ValueAt(xml_content, p))

\* C11, amended: an elementParameter that sets a promoted key of a component
\* is also in the parameters under its own name, with its quote-stripped
\* value (or that of a later parameter of the name that has a field and a
\* value), exactly when it has a non-empty field attribute and a value, be it
\* content or a value attribute; a parameter with no field attribute, or a
\* VAR_TABLE or OUTPUT_TABLES parameter of a tMap with no value at all, sets
\* the promoted key only.
C11_WithField ==
    Succeeded =>
        \A c \in 1..Len(summary.components) : \A p \in Range(ParamsIn(xml_content, c)) :
            PromotedKey(xml_content, c, p) # None =>
                LET name == xml_content[p].attr["name"]
                    ins  == WithField(xml_content, c, name)
                IN /\ Has(summary.components[c].parameters, PromotedKey(xml_content, c, p))
                   /\ Has(summary.components[c].parameters, name) <=> ins # <<>>
                   /\ ins # <<>> =>
                         Get(summary.components[c].parameters, name)
                            = Core(ValueAt(xml_content, Last(ins)))

\* a tDBInput node with one QUERY parameter, field and quoted value set, has
\* been extracted: it is under sql_query and under QUERY
C11_Witness ==
    /\ Succeeded
    /\ Len(summary.components) = 1
    /\ TypeAt(xml_content, 1) = S("tDBInput")
    /\ Len(ParamsNamed(xml_content, 1, S("QUERY"))) = 1
    /\ WithField(xml_content, 1, S("QUERY")) # <<>>
    /\ ValueAt(xml_content, ParamsNamed(xml_content, 1, S("QUERY"))[1]) = Quoted(S("SELECT 1"))
    /\ Has(summary.components[1].parameters, S("sql_query"))
    /\ Has(summary.components[1].parameters, S("QUERY"))
    /\ Get(summary.components[1].parameters, S("QUERY")) = S("SELECT 1")

\* the number of pairs of quotes around s, up to two; 3 for any other shape
Layers(s) ==
    IF s = Core(s) THEN 0
    ELSE IF s = Quoted(Core(s)) THEN 1
    ELSE IF s = Quoted(Quoted(Core(s))) THEN 2
    ELSE 3

\* s without one pair of surrounding quotes
OneLayerOff(s) ==
    IF Len(s) >= 2 /\ s[1] = Q /\ s[Len(s)] = Q THEN SubSeq(s, 2, Len(s) - 1) ELSE s

\* the names under which the parameters of component c are inserted
InsertedNames(toks, c) ==
    {toks[p].attr["name"] : p \in Range(ParamsIn(toks, c))} \ (C2_Names \cup {None, <<>>})

\* C12 as stated: a parameter value loses exactly one layer of surrounding
\* quotes: a value in one pair of quotes is recorded without the pair, a
\* value in two pairs with the inner pair, a value with no surrounding
\* quotes unchanged.
C12_OneLayer ==
    Succeeded =>
        \A c \in 1..Len(summary.components) : \A name \in InsertedNames(xml_content, c) :
            LET ins == WithField(xml_content, c, name) IN
            (ins # <<>> /\ Layers(ValueAt(xml_content, Last(ins))) \in {0, 1, 2}) =>
                Get(summary.components[c].parameters, name)
                   = OneLayerOff(ValueAt(xml_content, Last(ins)))

\* C12, amended: a parameter value loses every leading and every trailing
\* double-quote character, whatever their number: a value in one pair of
\* quotes is recorded without the pair, a value in two pairs without both
\* pairs, a value with quotes at one end only without them, and a value
\* with no quote at either end unchanged; quotes inside the value stay. The
\* same holds of the values under sql_query, filepath and db_table_name.
C12_AllLayers ==
    Succeeded =>
        \A c \in 1..Len(summary.components) :
            /\ \A name \in InsertedNames(xml_content, c) :
                  LET ins == WithField(xml_content, c, name) IN
                  ins # <<>> =>
                      Get(summary.components[c].parameters, name)
                         = Core(ValueAt(xml_content, Last(ins)))
            /\ \A pr \in Promotions :
                  Has(summary.components[c].parameters, pr[2]) =>
                      /\ ValuedParams(xml_content, c, pr[1]) # <<>>
                      /\ Get(summary.components[c].parameters, pr[2])
                            = Core(ValueAt(xml_content, Last(ValuedParams(xml_content, c, pr[1]))))

\* a node whose FILENAME parameter has a value in two pairs of quotes has
\* been extracted, next to a parameter with a quote at the front and one inside
C12_Witness ==
    /\ Succeeded
    /\ Len(summary.components) = 1
    /\ WithField(xml_content, 1, S("FILENAME")) # <<>>
    /\ WithField(xml_content, 1, S("BAR")) # <<>>
    /\ ValueAt(xml_content, Last(WithField(xml_content, 1, S("FILENAME"))))
          = Quoted(Quoted(S("/data/out.csv")))
    /\ Has(summary.components[1].parameters, S("FILENAME"))
    /\ Get(summary.components[1].parameters, S("FILENAME")) = S("/data/out.csv")
    /\ Has(summary.components[1].parameters, S("BAR"))
    /\ Get(summary.components[1].parameters, S("BAR")) = <<"a", Q, "b">>

\* the text at the start of the content of the element started at p, None
\* when the content is empty or starts with a child element
TextAt(toks, p) ==
    IF toks[p].k = "open" /\ toks[p + 1].k = "text" THEN toks[p + 1].s ELSE None

\* C13: the value of an elementParameter is the text at the start of its
\* content when there is one, blank or not, and its value attribute
\* otherwise: the last parameter of a name that has a field and a value is
\* recorded under that name with its text, quote-stripped, when it has text,
\* and with its value attribute, quote-stripped, when it has none; a tMap
\* records under tMap_variables_raw the value of its last VAR_TABLE
\* parameter resolved the same way, as it stands.
C13_TextElseValue ==
    Succeeded =>
        \A c \in 1..Len(summary.components) :
            /\ \A name \in InsertedNames(xml_content, c) :
                  LET ins == WithField(xml_content, c, name) IN
                  ins # <<>> =>
                      LET p == Last(ins) IN
                      /\ TextAt(xml_content, p) # None =>
                            Get(summary.components[c].parameters, name)
                               = Core(TextAt(xml_content, p))
                      /\ TextAt(xml_content, p) = None =>
                            /\ xml_content[p].attr["value"] # None
                            /\ Get(summary.components[c].parameters, name)
                                  = Core(xml_content[p].attr["value"])
            /\ (TypeAt(xml_content, c) = S("tMap")
                   /\ ParamsNamed(xml_content, c, S("VAR_TABLE")) # <<>>) =>
                  LET p == Last(ParamsNamed(xml_content, c, S("VAR_TABLE"))) IN
                  /\ Has(summary.components[c].parameters, S("tMap_variables_raw"))
                  /\ Get(summary.components[c].parameters, S("tMap_variables_raw"))
                        = IF TextAt(xml_content, p) # None THEN TextAt(xml_content, p)
                          ELSE xml_content[p].attr["value"]

\* a node has been extracted whose QUERY parameter has text and a value
\* attribute, recorded with the text, and whose BAZ parameter has a value
\* attribute and content that starts with a child element, recorded with the
\* attribute
C13_Witness ==
    /\ Succeeded
    /\ Len(summary.components) = 1
    /\ WithField(xml_content, 1, S("QUERY")) # <<>>
    /\ WithField(xml_content, 1, S("BAZ")) # <<>>
    /\ TextAt(xml_content, Last(WithField(xml_content, 1, S("QUERY")))) = S("SELECT 4")
    /\ xml_content[Last(WithField(xml_content, 1, S("QUERY")))].attr["value"] = Quoted(S("SELECT 3"))
    /\ TextAt(xml_content, Last(WithField(xml_content, 1, S("BAZ")))) = None
    /\ Has(summary.components[1].parameters, S("QUERY"))
    /\ Get(summary.components[1].parameters, S("QUERY")) = S("SELECT 4")
    /\ Has(summary.components[1].parameters, S("BAZ"))
    /\ Get(summary.components[1].parameters, S("BAZ")) = S("attr")

\* the column d of the summary is the column element started at n: key and
\* nullable are true for the attribute value "true" only, false and true
\* when the attribute is absent; the five plain fields are the attributes as
\* they stand; default is there only with a defaultValue attribute, and
\* then it is the attribute without its surrounding quotes
ColumnOf(toks, n, d) ==
    LET a == toks[n].attr IN
    /\ a["key"] = None => d.key = FALSE
    /\ a["nullable"] = None => d.nullable = TRUE
    /\ d.key = (a["key"] = S("true"))
    /\ d.nullable = (a["nullable"] = None \/ a["nullable"] = S("true"))
    /\ d.name = a["name"]
    /\ d.talend_type = a["type"]
    /\ d.length = a["length"]
    /\ d.precision = a["precision"]
    /\ d.comment = a["comment"]
    /\ d.default # None => (a["defaultValue"] # None /\ d.default = Core(a["defaultValue"]))
    /\ d.default # None <=> Truthy(a["defaultValue"])

\* C14: every column of every schema of every component, and so of the
\* job-level metadata, is the column element it was read from: key false and
\* nullable true when their attributes are absent, name, talend_type,
\* length, precision and comment the attributes verbatim (None when absent),
\* and default present only if the column has a defaultValue attribute (a
\* non-empty one), holding that attribute's quote-stripped value.
C14_Columns ==
    Succeeded =>
        /\ \A c \in 1..Len(summary.components) :
              LET at == TagsIn(xml_content, "metadata", TagsBelowRoot(xml_content, "node")[c])
                  local == summary.components[c].metadata
              IN /\ Len(local) = Len(at)
                 /\ \A x \in 1..Len(at) :
                       LET cols == TagsIn(xml_content, "column", at[x]) IN
                       /\ Len(local[x].columns) = Len(cols)
                       /\ \A k \in 1..Len(cols) :
                             ColumnOf(xml_content, cols[k], local[x].columns[k])
        /\ \A e \in 1..Len(summary.metadata) :
              \E c \in 1..Len(summary.components) :
                  \E x \in 1..Len(summary.components[c].metadata) :
                      /\ summary.components[c].metadata[x].name = summary.metadata[e][1]
                      /\ summary.components[c].metadata[x].columns
                            = summary.metadata[e][2].columns

\* two components have been extracted, the first with a column that has
\* every attribute and the default "0" in quotes, the second with a column
\* that has a name and a type only
C14_Witness ==
    /\ Succeeded
    /\ Len(summary.components) = 2
    /\ Len(summary.components[1].metadata) >= 1
    /\ Len(summary.components[2].metadata) = 1
    /\ Len(summary.components[1].metadata[1].columns) = 1
    /\ Len(summary.components[2].metadata[1].columns) = 1
    /\ summary.components[1].metadata[1].columns[1]
          = [name |-> S("id"), talend_type |-> S("id_Integer"), key |-> TRUE,
             nullable |-> FALSE, length |-> S("10"), precision |-> S("0"),
             comment |-> S("the key"), default |-> S("0")]
    /\ summary.components[2].metadata[1].columns[1]
          = [name |-> S("name"), talend_type |-> S("id_String"), key |-> FALSE,
             nullable |-> TRUE, length |-> None, precision |-> None,
             comment |-> None, default |-> None]

=============================================================================
